---- MODULE Spec2Model ----
(***************************************************************************)
(* switch-rom-packer: the three on-device programs of the repository.      *)
(*                                                                         *)
(*   stub       (src/unnamed/part_002)  reads romfs:/filelist.txt and      *)
(*              copies every listed ROM to /roms/<platform>/<filename>     *)
(*   romstub    (src/stub/source/main.c) the single-ROM stub: copies       *)
(*              romfs:/rom.bin to /switch/roms/rom.bin                     *)
(*   forwarder  (src/unnamed/part_000)  reads romfs:/nextNroPath and       *)
(*              romfs:/nextArgv and calls chainload_nro                    *)
(*                                                                         *)
(* Text is a sequence of one-character strings, file content a sequence    *)
(* of bytes, a path a text.  The C library calls are modelled by what      *)
(* they do on these values (fgets, sscanf, snprintf, strrchr, fread, ...). *)
(***************************************************************************)
EXTENDS Integers, Sequences, FiniteSets, TLC

(***************************************************************************)
(* Characters and text helpers                                             *)
(***************************************************************************)
TAB == "\t"
LF == "\n"
CR == "\r"
SP == " "
SLASH == "/"

\* isspace(): what a white-space directive of a scanf format skips
IsSpace(c) == c \in {SP, TAB, LF, CR}

Rep(c, n) == [i \in 1..n |-> c]

Min(a, b) == IF a <= b THEN a ELSE b

Take(s, n) == SubSeq(s, 1, Min(n, Len(s)))

Drop(s, n) == SubSeq(s, n + 1, Len(s))

\* index of the first character at or after `from` that satisfies Stop,
\* Len(s) + 1 when there is none
StopIdx(s, from, Stop(_)) ==
    CHOOSE i \in from..(Len(s) + 1) :
        /\ (i = Len(s) + 1 \/ Stop(s[i]))
        /\ \A j \in from..(i - 1) : ~Stop(s[j])

IsTab(c) == c = TAB
IsLF(c) == c = LF
NotSpace(c) == ~IsSpace(c)

\* strrchr(s, '/'): index of the last '/', 0 when there is none
LastSlash(s) ==
    CHOOSE i \in 0..Len(s) :
        /\ (i = 0 \/ s[i] = SLASH)
        /\ \A j \in (i + 1)..Len(s) : s[j] # SLASH

\* snprintf(buf, size, "%s%s", a, b): at most size - 1 characters are kept
Snprintf(size, s) == Take(s, size - 1)

(***************************************************************************)
(* Program constants                                                       *)
(***************************************************************************)
LINE_SIZE == 768
PLATFORM_WIDTH == 159
FILENAME_WIDTH == 575
SRCPATH_SIZE == 700
DSTPATH_SIZE == 1100
DIR_SIZE == 1024
BUF_SIZE == 8192

OUTPUT_BASE == <<"/", "r", "o", "m", "s", "/">>
ROMFS_ROOT == <<"r", "o", "m", "f", "s", ":", "/">>
FILELIST == <<"f", "i", "l", "e", "l", "i", "s", "t", ".", "t", "x", "t">>

\* libnx result codes: MAKERESULT packs a 9-bit module and a 13-bit description
Module_Libnx == 345
LibnxError_NotFound == 9
LibnxError_IoError == 10
MAKERESULT(module, description) == (module % 512) + ((description % 8192) * 512)
R_FAILED(res) == res # 0

(***************************************************************************)
(* Line reading and parsing (stub main, the manifest loop)                 *)
(***************************************************************************)
\* fgets(line, sizeof(line), list) at offset pos of the text: the characters
\* up to and including the next '\n', at most LINE_SIZE - 1 of them;
\* <<>> stands for NULL (end of file)
Fgets(text, pos) ==
    IF pos > Len(text) THEN <<>>
    ELSE LET nl == StopIdx(text, pos, IsLF)
             last == Min(Min(nl, Len(text)), pos + LINE_SIZE - 2)
         IN SubSeq(text, pos, last)

\* while (len && (line[len-1] == '\n' || line[len-1] == '\r')) line[--len] = 0
TrimCRLF(s) ==
    LET n == CHOOSE k \in 0..Len(s) :
                 /\ (k = 0 \/ s[k] \notin {LF, CR})
                 /\ \A j \in (k + 1)..Len(s) : s[j] \in {LF, CR}
    IN SubSeq(s, 1, n)

\* sscanf(line, "%159[^\t]\t%575[^\n]", platform, filename) on a non-empty
\* line: the number of conversions and the two fields.
\*   %159[^\t]  the longest run of non-tab characters, at most 159, at least 1
\*   \t         a white-space directive: skips any run of white space
\*   %575[^\n]  the longest run of non-newline characters, at most 575
Sscanf(line) ==
    LET tabAt == StopIdx(line, 1, IsTab)
        pEnd == Min(tabAt - 1, PLATFORM_WIDTH)
        fStart == StopIdx(line, pEnd + 1, NotSpace)
        nlAt == StopIdx(line, fStart, IsLF)
        fEnd == Min(nlAt - 1, fStart + FILENAME_WIDTH - 1)
    IN IF pEnd = 0
       THEN [n |-> 0, platform |-> <<>>, filename |-> <<>>]
       ELSE IF fEnd < fStart
            THEN [n |-> 1, platform |-> SubSeq(line, 1, pEnd), filename |-> <<>>]
            ELSE [n |-> 2, platform |-> SubSeq(line, 1, pEnd),
                  filename |-> SubSeq(line, fStart, fEnd)]

(***************************************************************************)
(* Bounds of the model                                                     *)
(***************************************************************************)
\* lines of a manifest
MaxLines == 2
\* I/O failures the environment injects in one behaviour of Spec
MaxFaults == 1
\* launches of the stub against the same SD card in SpecRerun
MaxRuns == 2

(***************************************************************************)
(* Inputs: the RomFS image bundled with the program, the SD card at start  *)
(***************************************************************************)
Bytes(n, seed) == [i \in 1..n |-> (i + seed) % 256]

\* manifest lines the packer may have written, each with its terminator
ManifestLines ==
    << <<"a", TAB, "f", LF>>,                          \* a <TAB> f
       <<"b", TAB, "g", CR, LF>>,                      \* b <TAB> g, CRLF
       <<"a", TAB, SP, "g", LF>>,                      \* file name " g"
       <<"a", "f", LF>>,                               \* no tab
       <<TAB, "f", LF>>,                               \* empty platform
       <<"a", TAB, LF>>,                               \* empty file name
       <<LF>>,                                         \* empty line
       Rep("a", PLATFORM_WIDTH + 1) \o <<TAB, "f", LF>>,       \* platform of 160
       <<"a", TAB>> \o Rep("f", FILENAME_WIDTH + 1) \o <<LF>>, \* file name of 576
       Rep("x", LINE_SIZE - 1) \o <<"a", TAB, "f", LF>>,       \* line of 771
       <<"b", TAB, "f">> >>                            \* last line, no terminator

ROM_NAME == <<"r", "o", "m", ".", "b", "i", "n">>
NRO_FILE == <<"n", "e", "x", "t", "N", "r", "o", "P", "a", "t", "h">>
ARG_FILE == <<"n", "e", "x", "t", "A", "r", "g", "v">>

\* the ROM files of an image, by file name: 1-3 for the stub, 4-8 for the
\* single-ROM stub (rom.bin of 0, 1, one buffer, one buffer and a byte, two
\* buffers and a byte)
NoFiles == [p \in {} |-> <<>>]

RomSets ==
    << (<<"f">> :> Bytes(2, 0)) @@ (<<"g">> :> Bytes(1, 7)) @@
       (<<SP, "g">> :> Bytes(3, 20)) @@ (Rep("f", FILENAME_WIDTH) :> Bytes(2, 40)),
       (<<"f">> :> Bytes(2, 0)),
       (<<"g">> :> Bytes(BUF_SIZE + 1, 0)),
       (ROM_NAME :> Bytes(0, 0)),
       (ROM_NAME :> Bytes(1, 0)),
       (ROM_NAME :> Bytes(BUF_SIZE, 0)),
       (ROM_NAME :> Bytes(BUF_SIZE + 1, 0)),
       (ROM_NAME :> Bytes(2 * BUF_SIZE + 1, 0)),
       NoFiles >>

\* the target path records and the argument records of a forwarder image
P_target == <<"s", "d", "m", "c", ":", "/", "r">>
P_absent == <<"s", "d", "m", "c", ":", "/", "x">>

NroRecords ==
    << <<>>,                                  \* empty file
       <<LF>>,                                \* a newline only
       <<SP, TAB, CR, LF>>,                   \* white space only
       P_target \o <<LF>>,                    \* an executable on the card
       P_absent \o <<CR, LF>>,                \* no such file on the card
       Rep(SP, 511) \o P_target >>            \* 511 blanks, then a path

ArgvRecords ==
    << <<>>,
       <<"-", "L", SP, "c", SP, "g", LF>>,
       <<SP, LF>> >>

\* an image: which lines its filelist.txt holds (hasList = FALSE: no such
\* file in the image), which ROM set it bundles, and which handoff records
\* (0: the record file is not in the image)
IsIncreasing(q) == \A i \in 1..(Len(q) - 1) : q[i] < q[i + 1]

LineChoices ==
    UNION {{q \in [1..n -> 1..Len(ManifestLines)] : IsIncreasing(q)} : n \in 0..MaxLines}

Image(hasList, lines, roms, nro, argv) ==
    [hasList |-> hasList, lines |-> lines, roms |-> roms, nro |-> nro, argv |-> argv]

Images ==
    {Image(TRUE, q, r, 0, 0) : q \in LineChoices, r \in {1, 2}}
    \cup {Image(FALSE, <<>>, 1, 0, 0), Image(TRUE, <<2>>, 3, 0, 0)}

RomImages == {Image(FALSE, <<>>, r, 0, 0) : r \in 4..9}

FwdImages ==
    {Image(FALSE, <<>>, 9, n, a) : n \in 0..Len(NroRecords), a \in 0..Len(ArgvRecords)}

RECURSIVE Concat(_, _)
Concat(lines, q) ==
    IF q = <<>> THEN <<>> ELSE lines[Head(q)] \o Concat(lines, Tail(q))

ManifestText(img) == Concat(ManifestLines, img.lines)

\* the files of the mounted image, by name below romfs:/
RomfsFiles(img) ==
    RomSets[img.roms]
    @@ (IF img.hasList THEN FILELIST :> ManifestText(img) ELSE NoFiles)
    @@ (IF img.nro > 0 THEN NRO_FILE :> NroRecords[img.nro] ELSE NoFiles)
    @@ (IF img.argv > 0 THEN ARG_FILE :> ArgvRecords[img.argv] ELSE NoFiles)

\* the SD card: its directories and its regular files, by path
P_roms == <<"/", "r", "o", "m", "s">>

SdCards ==
    { [dirs |-> {}, files |-> NoFiles],
      [dirs |-> {P_roms, P_roms \o <<"/", "a">>},
       files |-> (P_roms \o <<"/", "a", "/", "f">> :> <<9, 9, 9>>)],
      [dirs |-> {P_roms}, files |-> (P_roms \o <<"/", "b">> :> <<8>>)] }

(***************************************************************************)
(* File-system calls                                                       *)
(***************************************************************************)
\* the directory part of a path: everything before its last '/'
Parent(path) == Take(path, LastSlash(path) - 1)

\* the empty path is the root of the device
IsDir(fs, p) == p = <<>> \/ p \in fs.dirs

Exists(fs, p) == p \in fs.dirs \/ p \in DOMAIN fs.files

\* mkdir(path, 0777); the environment refuses to create the paths in deny
Mkdir(fs, path, deny) ==
    IF Exists(fs, path) THEN [res |-> "EEXIST", fs |-> fs]
    ELSE IF path = <<>> \/ ~IsDir(fs, Parent(path)) THEN [res |-> "ENOENT", fs |-> fs]
    ELSE IF path \in deny THEN [res |-> "EIO", fs |-> fs]
    ELSE [res |-> "OK", fs |-> [fs EXCEPT !.dirs = @ \cup {path}]]

\* the loop of mkpath from character position `from`: mkdir of every proper
\* prefix that ends before a '/', the results ignored
RECURSIVE MkdirPrefixes(_, _, _, _)
MkdirPrefixes(fs, tmp, from, deny) ==
    LET i == StopIdx(tmp, from, LAMBDA c : c = SLASH)
    IN IF i > Len(tmp) THEN [fs |-> fs, refused |-> {}]
       ELSE LET r == Mkdir(fs, Take(tmp, i - 1), deny)
                rest == MkdirPrefixes(r.fs, tmp, i + 1, deny)
            IN [fs |-> rest.fs,
                refused |-> rest.refused \cup
                            (IF r.res = "EIO" THEN {Take(tmp, i - 1)} ELSE {})]

\* mkpath(path): mkdir -p; -1 when the last mkdir fails other than by EEXIST
mkpath(fs, path, deny) ==
    LET tmp == Take(path, DIR_SIZE - 1)
    IN IF Len(tmp) = 0 THEN [rc |-> 0, fs |-> fs, refused |-> {}]
       ELSE LET pre == MkdirPrefixes(fs, tmp, 2, deny)
                last == Mkdir(pre.fs, tmp, deny)
            IN [rc |-> IF last.res \notin {"OK", "EEXIST"} THEN -1 ELSE 0,
                fs |-> last.fs,
                refused |-> pre.refused \cup (IF last.res = "EIO" THEN {tmp} ELSE {})]

\* whether fopen(path, "wb") can open: the directory exists and the name is
\* not a directory
CanOpenForWrite(fs, path) == IsDir(fs, Parent(path)) /\ path \notin fs.dirs

\* fopen(path, "ab") in place of "wb": what the file holds is kept
OpenKeep(fs, path) ==
    [fs EXCEPT !.files = @ @@ (path :> <<>>)]

\* fopen(path, "wb"): the file is created, or truncated to zero length
OpenTruncate(fs, path) ==
    [fs EXCEPT !.files = (path :> <<>>) @@ @]

\* fwrite of the bytes to the open file at its end
AppendBytes(fs, path, bytes) ==
    [fs EXCEPT !.files = (path :> (fs.files[path] \o bytes)) @@ @]

\* the name below romfs:/ that a source path opens
RomfsName(path) == Drop(path, Len(ROMFS_ROOT))

(***************************************************************************)
(* State                                                                   *)
(***************************************************************************)
VARIABLES
    pc,        \* where the running program is
    run,       \* number of the current launch of the program
    image,     \* the RomFS image bundled with the program (read-only)
    sd,        \* the SD card: [dirs, files]
    listPos,   \* offset of the next unread character of filelist.txt, from 1
    srcPath,   \* copyFile: srcPath
    dstPath,   \* copyFile: dstPath
    srcOff,    \* copyFile: bytes of src consumed by fread in this call
    mkrc,      \* copyFile: what mkpath returned in this call (the code drops it)
    rc,        \* the Result of the last copyFile or chainload_nro
    screen,    \* the lines printed on the console, oldest first
    held,      \* resources acquired and not yet released, in order of acquisition
    relHist,   \* resources released, in order of release
    faults,    \* I/O failures the environment may still inject
    hist,      \* [sd, screen] at the end of each earlier launch
    exitBy,    \* what ended the idle loop: "none", "plus" or "applet"
    nroPath,   \* forwarder: the target path record
    argvLine,  \* forwarder: the argument record
    calls      \* forwarder: the chainload_nro calls made, <<nroPath, argvLine>>

vars == <<pc, run, image, sd, listPos, srcPath, dstPath, srcOff, mkrc, rc, screen,
          held, relHist, faults, hist, exitBy, nroPath, argvLine, calls>>

copyVars == <<srcPath, dstPath, srcOff, mkrc, rc>>
fwdVars == <<nroPath, argvLine, calls>>

Acquire(r) == held' = Append(held, r) /\ UNCHANGED relHist

Release(rs) ==
    /\ held' = SelectSeq(held, LAMBDA h : \A i \in 1..Len(rs) : rs[i] # h)
    /\ relHist' = relHist \o rs

Show(msgs) == screen' = screen \o msgs

ProcessInit ==
    /\ listPos = 0
    /\ srcPath = <<>>
    /\ dstPath = <<>>
    /\ srcOff = 0
    /\ mkrc = 0
    /\ rc = 0
    /\ screen = <<>>
    /\ held = <<>>
    /\ relHist = <<>>
    /\ exitBy = "none"
    /\ nroPath = <<>>
    /\ argvLine = <<>>
    /\ calls = <<>>

(***************************************************************************)
(* stub: main                                                              *)
(***************************************************************************)
\* StubInit without the else: a failed mount is reported and the manifest is
\* opened all the same
StubInit_NoElse ==
    /\ pc = "s_init"
    /\ \E mounted \in BOOLEAN :
        IF mounted
        THEN /\ held' = held \o <<"console", "romfs">>
             /\ UNCHANGED <<relHist, screen>>
        ELSE /\ Acquire("console")
             /\ Show(<< <<"romfsInit failed", MAKERESULT(Module_Libnx, LibnxError_IoError)>> >>)
    /\ pc' = "s_open"
    /\ UNCHANGED <<run, image, sd, listPos, copyVars, faults, hist, exitBy, fwdVars>>

\* consoleInit(NULL); rc = romfsInit(); the mount fails when the environment
\* says so
StubInit ==
    /\ pc = "s_init"
    /\ \E mounted \in BOOLEAN :
        IF mounted
        THEN /\ held' = held \o <<"console", "romfs">>
             /\ UNCHANGED <<relHist, screen>>
             /\ pc' = "s_open"
        ELSE /\ Acquire("console")
             /\ Show(<< <<"romfsInit failed", MAKERESULT(Module_Libnx, LibnxError_IoError)>> >>)
             /\ pc' = "s_pad"
    /\ UNCHANGED <<run, image, sd, listPos, copyVars, faults, hist, exitBy, fwdVars>>

\* FILE* list = fopen("romfs:/filelist.txt", "r")
StubOpenList ==
    /\ pc = "s_open"
    /\ IF FILELIST \in DOMAIN RomfsFiles(image)
       THEN /\ Acquire("list")
            /\ listPos' = 1
            /\ pc' = "s_line"
            /\ UNCHANGED screen
       ELSE /\ Show(<< <<"Missing in RomFS", FILELIST>> >>)
            /\ pc' = "s_romfsExit"
            /\ UNCHANGED <<held, relHist, listPos>>
    /\ UNCHANGED <<run, image, sd, copyVars, faults, hist, exitBy, fwdVars>>

\* one turn of while (fgets(line, sizeof(line), list)) up to the call of
\* copyFile: trim, skip an empty line, parse, build the two paths
StubReadLine ==
    /\ pc = "s_line"
    /\ LET line == Fgets(RomfsFiles(image)[FILELIST], listPos)
           trimmed == TrimCRLF(line)
           parsed == Sscanf(trimmed)
       IN IF line = <<>>
          THEN \* end of file: fclose(list)
               /\ Release(<<"list">>)
               /\ pc' = "s_romfsExit"
               /\ UNCHANGED <<listPos, srcPath, dstPath, screen>>
          ELSE /\ listPos' = listPos + Len(line)
               /\ UNCHANGED <<held, relHist>>
               /\ IF Len(trimmed) = 0
                  THEN /\ pc' = "s_line"
                       /\ UNCHANGED <<srcPath, dstPath, screen>>
                  ELSE IF parsed.n # 2
                  THEN /\ Show(<< <<"Bad manifest line", trimmed>> >>)
                       /\ pc' = "s_line"
                       /\ UNCHANGED <<srcPath, dstPath>>
                  ELSE /\ srcPath' = Snprintf(SRCPATH_SIZE, ROMFS_ROOT \o parsed.filename)
                       /\ dstPath' = Snprintf(DSTPATH_SIZE,
                                        OUTPUT_BASE \o parsed.platform \o <<SLASH>>
                                                    \o parsed.filename)
                       /\ Show(<< <<"Copying", srcPath', dstPath'>> >>)
                       /\ pc' = "s_cf_src"
    /\ UNCHANGED <<run, image, sd, srcOff, mkrc, rc, faults, hist, exitBy, fwdVars>>

(***************************************************************************)
(* stub: copyFile                                                          *)
(***************************************************************************)
\* FILE* src = fopen(srcPath, "rb"); if (!src) return NotFound
CopyOpenSrc ==
    /\ pc = "s_cf_src"
    /\ srcOff' = 0
    /\ mkrc' = 0
    /\ IF RomfsName(srcPath) \in DOMAIN RomfsFiles(image)
       THEN /\ Acquire("src")
            /\ pc' = "s_cf_mkpath"
            /\ UNCHANGED rc
       ELSE /\ rc' = MAKERESULT(Module_Libnx, LibnxError_NotFound)
            /\ pc' = "s_cf_ret"
            /\ UNCHANGED <<held, relHist>>
    /\ UNCHANGED <<run, image, sd, listPos, srcPath, dstPath, screen, faults,
                   hist, exitBy, fwdVars>>

\* the directories mkpath(dir) may be refused
MkpathTargets(dir) ==
    {Take(dir, i - 1) : i \in {j \in 2..Len(dir) : dir[j] = SLASH}} \cup {dir}

\* strncpy(dir, dstPath); cut at the last '/'; mkpath(dir), its result dropped
CopyMkpath ==
    /\ pc = "s_cf_mkpath"
    /\ LET dir == Take(dstPath, DIR_SIZE - 1)
           lastSlash == LastSlash(dir)
           cut == Take(dir, lastSlash - 1)
       IN IF lastSlash > 0
          THEN \E deny \in SUBSET MkpathTargets(cut) :
                  LET r == mkpath(sd, cut, deny)
                  IN /\ r.refused = deny
                     /\ Cardinality(deny) <= faults
                     /\ faults' = faults - Cardinality(deny)
                     /\ sd' = r.fs
                     /\ mkrc' = r.rc
          ELSE UNCHANGED <<sd, mkrc, faults>>
    /\ pc' = "s_cf_dst"
    /\ UNCHANGED <<run, image, listPos, srcPath, dstPath, srcOff, rc, screen, held,
                   relHist, hist, exitBy, fwdVars>>

\* CopyOpenDst returning 0 when the destination cannot be opened
CopyOpenDst_ReturnsOk ==
    /\ pc = "s_cf_dst"
    /\ \E granted \in BOOLEAN :
        /\ ~granted => (faults > 0 /\ CanOpenForWrite(sd, dstPath))
        /\ IF granted /\ CanOpenForWrite(sd, dstPath)
           THEN /\ sd' = OpenTruncate(sd, dstPath)
                /\ Acquire("dst")
                /\ pc' = "s_cf_loop"
                /\ UNCHANGED <<rc, faults>>
           ELSE /\ Release(<<"src">>)
                /\ rc' = 0
                /\ faults' = IF granted THEN faults ELSE faults - 1
                /\ pc' = "s_cf_ret"
                /\ UNCHANGED sd
    /\ UNCHANGED <<run, image, listPos, srcPath, dstPath, srcOff, mkrc, screen, hist,
                   exitBy, fwdVars>>

\* FILE* dst = fopen(dstPath, "wb"); if (!dst) { fclose(src); return IoError; }
CopyOpenDst ==
    /\ pc = "s_cf_dst"
    /\ \E granted \in BOOLEAN :
        /\ ~granted => (faults > 0 /\ CanOpenForWrite(sd, dstPath))
        /\ IF granted /\ CanOpenForWrite(sd, dstPath)
           THEN /\ sd' = OpenTruncate(sd, dstPath)
                /\ Acquire("dst")
                /\ pc' = "s_cf_loop"
                /\ UNCHANGED <<rc, faults>>
           ELSE /\ Release(<<"src">>)
                /\ rc' = MAKERESULT(Module_Libnx, LibnxError_IoError)
                /\ faults' = IF granted THEN faults ELSE faults - 1
                /\ pc' = "s_cf_ret"
                /\ UNCHANGED sd
    /\ UNCHANGED <<run, image, listPos, srcPath, dstPath, srcOff, mkrc, screen, hist,
                   exitBy, fwdVars>>

\* what fread(buf, 1, sizeof(buf), src) can return with `left` bytes unread:
\* the next chunk, or 0 on a read error
FreadResults(left, mayFail) ==
    {Min(BUF_SIZE, left)} \cup (IF mayFail /\ left > 0 THEN {0} ELSE {})

\* what fwrite(buf, 1, n, dst) can return: n, or less on a short write
FwriteResults(n, mayFail) ==
    {n} \cup (IF mayFail THEN {0, n - 1} ELSE {})

\* one turn of while ((n = fread(...)) > 0) { if (fwrite(...) != n) ... },
\* or the end of the loop: fclose(src); fclose(dst); return 0
CopyChunk ==
    /\ pc = "s_cf_loop"
    /\ LET content == RomfsFiles(image)[RomfsName(srcPath)]
       IN \E n \in FreadResults(Len(content) - srcOff, faults > 0) :
            IF n = 0
            THEN /\ Release(<<"src", "dst">>)
                 /\ rc' = 0
                 /\ faults' = IF srcOff < Len(content) THEN faults - 1 ELSE faults
                 /\ pc' = "s_cf_ret"
                 /\ UNCHANGED <<sd, srcOff>>
            ELSE \E w \in FwriteResults(n, faults > 0) :
                 /\ sd' = AppendBytes(sd, dstPath, SubSeq(content, srcOff + 1, srcOff + w))
                 /\ srcOff' = srcOff + n
                 /\ IF w # n
                    THEN /\ Release(<<"src", "dst">>)
                         /\ rc' = MAKERESULT(Module_Libnx, LibnxError_IoError)
                         /\ faults' = faults - 1
                         /\ pc' = "s_cf_ret"
                    ELSE /\ pc' = "s_cf_loop"
                         /\ UNCHANGED <<rc, held, relHist, faults>>
    /\ UNCHANGED <<run, image, listPos, srcPath, dstPath, mkrc, screen, hist, exitBy,
                   fwdVars>>

\* rc = copyFile(...) has returned: print the outcome, go on with the loop
CopyReturn ==
    /\ pc = "s_cf_ret"
    /\ Show(<< IF R_FAILED(rc) THEN <<"Copy failed", rc>> ELSE <<"Done">> >>)
    /\ pc' = "s_line"
    /\ UNCHANGED <<run, image, sd, listPos, copyVars, held, relHist, faults, hist,
                   exitBy, fwdVars>>

\* fclose(list) was done at end of file; romfsExit()
StubRomfsExit ==
    /\ pc = "s_romfsExit"
    /\ Release(<<"romfs">>)
    /\ pc' = "s_pad"
    /\ UNCHANGED <<run, image, sd, listPos, copyVars, screen, faults, hist, exitBy,
                   fwdVars>>

\* padConfigureInput, padInitializeDefault, printf("Press PLUS to exit.")
StubPad ==
    /\ pc = "s_pad"
    /\ Show(<< <<"Press PLUS to exit.">> >>)
    /\ pc' = "s_idle"
    /\ UNCHANGED <<run, image, sd, listPos, copyVars, held, relHist, faults, hist,
                   exitBy, fwdVars>>

\* the idle loop ends when appletMainLoop() returns false or PLUS is down;
\* then consoleExit(NULL); return 0.  A turn that does neither changes nothing.
StubIdle ==
    /\ pc = "s_idle"
    /\ \E cause \in {"plus", "applet"} : exitBy' = cause
    /\ Release(<<"console">>)
    /\ pc' = "exited"
    /\ UNCHANGED <<run, image, sd, listPos, copyVars, screen, faults, hist, fwdVars>>

\* the user launches the stub again: a new process, the same SD card
StubRelaunch ==
    /\ pc = "exited"
    /\ run < MaxRuns
    /\ run' = run + 1
    /\ hist' = Append(hist, [sd |-> sd, screen |-> screen])
    /\ pc' = "s_init"
    /\ listPos' = 0
    /\ srcPath' = <<>>
    /\ dstPath' = <<>>
    /\ srcOff' = 0
    /\ mkrc' = 0
    /\ rc' = 0
    /\ screen' = <<>>
    /\ held' = <<>>
    /\ relHist' = <<>>
    /\ exitBy' = "none"
    /\ UNCHANGED <<image, sd, faults, fwdVars>>

StubStep ==
    \/ StubInit
    \/ StubOpenList
    \/ StubReadLine
    \/ CopyOpenSrc
    \/ CopyMkpath
    \/ CopyOpenDst
    \/ CopyChunk
    \/ CopyReturn
    \/ StubRomfsExit
    \/ StubPad
    \/ StubIdle

(***************************************************************************)
(* romstub: the single-ROM stub (src/stub/source/main.c)                   *)
(***************************************************************************)
OUTPUT_DIR == <<"/", "s", "w", "i", "t", "c", "h", "/", "r", "o", "m", "s", "/">>
ROM_SRCPATH_SIZE == 64
ROM_DSTPATH_SIZE == 256

P_switch == <<"/", "s", "w", "i", "t", "c", "h">>

RomSdCards ==
    { [dirs |-> {}, files |-> NoFiles],
      [dirs |-> {P_switch, Take(OUTPUT_DIR, Len(OUTPUT_DIR) - 1)}, files |-> NoFiles],
      [dirs |-> {P_switch, Take(OUTPUT_DIR, Len(OUTPUT_DIR) - 1)},
       files |-> (OUTPUT_DIR \o ROM_NAME :> <<9, 9, 9>>)] }

\* consoleInit(NULL); rc = romfsInit(); on success the two paths are built
RomInit ==
    /\ pc = "r_init"
    /\ \E mounted \in BOOLEAN :
        IF mounted
        THEN /\ held' = held \o <<"console", "romfs">>
             /\ UNCHANGED relHist
             /\ srcPath' = Snprintf(ROM_SRCPATH_SIZE, ROMFS_ROOT \o ROM_NAME)
             /\ dstPath' = Snprintf(ROM_DSTPATH_SIZE, OUTPUT_DIR \o ROM_NAME)
             /\ Show(<< <<"RomFS mounted.">>, <<"Copying", srcPath', dstPath'>> >>)
             /\ pc' = "r_cf_src"
        ELSE /\ Acquire("console")
             /\ Show(<< <<"romfsInit failed", MAKERESULT(Module_Libnx, LibnxError_IoError)>> >>)
             /\ pc' = "r_pad"
             /\ UNCHANGED <<srcPath, dstPath>>
    /\ UNCHANGED <<run, image, sd, listPos, srcOff, mkrc, rc, faults, hist, exitBy,
                   fwdVars>>

\* FILE* src = fopen(srcPath, "rb"); if (!src) return NotFound
RomCopyOpenSrc ==
    /\ pc = "r_cf_src"
    /\ IF RomfsName(srcPath) \in DOMAIN RomfsFiles(image)
       THEN /\ Acquire("src")
            /\ srcOff' = 0
            /\ pc' = "r_cf_dst"
            /\ UNCHANGED rc
       ELSE /\ rc' = MAKERESULT(Module_Libnx, LibnxError_NotFound)
            /\ pc' = "r_cf_ret"
            /\ UNCHANGED <<held, relHist, srcOff>>
    /\ UNCHANGED <<run, image, sd, listPos, srcPath, dstPath, mkrc, screen, faults,
                   hist, exitBy, fwdVars>>

\* FILE* dst = fopen(dstPath, "wb"); if (!dst) { fclose(src); return IoError; }
RomCopyOpenDst ==
    /\ pc = "r_cf_dst"
    /\ \E granted \in BOOLEAN :
        /\ ~granted => (faults > 0 /\ CanOpenForWrite(sd, dstPath))
        /\ IF granted /\ CanOpenForWrite(sd, dstPath)
           THEN /\ sd' = OpenTruncate(sd, dstPath)
                /\ Acquire("dst")
                /\ pc' = "r_cf_loop"
                /\ UNCHANGED <<rc, faults>>
           ELSE /\ Release(<<"src">>)
                /\ rc' = MAKERESULT(Module_Libnx, LibnxError_IoError)
                /\ faults' = IF granted THEN faults ELSE faults - 1
                /\ pc' = "r_cf_ret"
                /\ UNCHANGED sd
    /\ UNCHANGED <<run, image, listPos, srcPath, dstPath, srcOff, mkrc, screen, hist,
                   exitBy, fwdVars>>

\* one turn of while ((read = fread(...)) > 0) { fwrite(buf, 1, read, dst); }
\* (what fwrite returns is not looked at), or the end of the loop:
\* fclose(src); fclose(dst); return 0
RomCopyChunk ==
    /\ pc = "r_cf_loop"
    /\ LET content == RomfsFiles(image)[RomfsName(srcPath)]
       IN \E n \in FreadResults(Len(content) - srcOff, faults > 0) :
            IF n = 0
            THEN /\ Release(<<"src", "dst">>)
                 /\ rc' = 0
                 /\ faults' = IF srcOff < Len(content) THEN faults - 1 ELSE faults
                 /\ pc' = "r_cf_ret"
                 /\ UNCHANGED <<sd, srcOff>>
            ELSE \E w \in FwriteResults(n, faults > 0) :
                 /\ sd' = AppendBytes(sd, dstPath, SubSeq(content, srcOff + 1, srcOff + w))
                 /\ srcOff' = srcOff + n
                 /\ faults' = IF w # n THEN faults - 1 ELSE faults
                 /\ pc' = "r_cf_loop"
                 /\ UNCHANGED <<rc, held, relHist>>
    /\ UNCHANGED <<run, image, listPos, srcPath, dstPath, mkrc, screen, hist, exitBy,
                   fwdVars>>

\* rc = copyFile(...) has returned: print the outcome; romfsExit()
RomCopyReturn ==
    /\ pc = "r_cf_ret"
    /\ Show(<< IF R_FAILED(rc) THEN <<"Copy failed", rc>> ELSE <<"Copy complete.">> >>)
    /\ Release(<<"romfs">>)
    /\ pc' = "r_pad"
    /\ UNCHANGED <<run, image, sd, listPos, copyVars, faults, hist, exitBy, fwdVars>>

\* padConfigureInput, padInitializeDefault, printf("Press PLUS to exit.")
RomPad ==
    /\ pc = "r_pad"
    /\ Show(<< <<"Press PLUS to exit.">> >>)
    /\ pc' = "r_idle"
    /\ UNCHANGED <<run, image, sd, listPos, copyVars, held, relHist, faults, hist,
                   exitBy, fwdVars>>

\* the idle loop, then consoleExit(NULL); return 0
RomIdle ==
    /\ pc = "r_idle"
    /\ \E cause \in {"plus", "applet"} : exitBy' = cause
    /\ Release(<<"console">>)
    /\ pc' = "exited"
    /\ UNCHANGED <<run, image, sd, listPos, copyVars, screen, faults, hist, fwdVars>>

RomStep ==
    \/ RomInit
    \/ RomCopyOpenSrc
    \/ RomCopyOpenDst
    \/ RomCopyChunk
    \/ RomCopyReturn
    \/ RomPad
    \/ RomIdle

(***************************************************************************)
(* forwarder (src/unnamed/part_000)                                        *)
(***************************************************************************)
SDMC == <<"s", "d", "m", "c", ":">>
LOG_DIR == SDMC \o <<"/", "s", "w", "i", "t", "c", "h", "-", "r", "o", "m", "-",
                     "p", "a", "c", "k", "e", "r">>
LOG_PATH == LOG_DIR \o <<"/", "f", "o", "r", "w", "a", "r", "d", "e", "r", ".", "l", "o", "g">>
NROPATH_SIZE == 512
ARGVLINE_SIZE == 768

\* the path on the card that a path of the sdmc: device names
SdPath(path) ==
    IF Len(path) >= Len(SDMC) /\ Take(path, Len(SDMC)) = SDMC
    THEN Drop(path, Len(SDMC))
    ELSE path

\* the cards the forwarder may find: empty; with the target executable; with
\* the target executable and a log of an earlier launch
FwdSdCards ==
    { [dirs |-> {}, files |-> NoFiles],
      [dirs |-> {}, files |-> (SdPath(P_target) :> <<78, 82, 79>>)],
      [dirs |-> {SdPath(LOG_DIR)},
       files |-> (SdPath(P_target) :> <<78, 82, 79>>)
                 @@ (SdPath(LOG_PATH) :> << <<"SRP forwarder start">> >>)] }

\* ensure_log_dir(): mkdir(LOG_DIR, 0777), the result ignored
ensure_log_dir(fs) == Mkdir(fs, SdPath(LOG_DIR), {}).fs

\* fopen(LOG_PATH, "a") and one line written, or nothing when fopen fails
AppendLine(fs, path, granted, msg) ==
    IF granted /\ CanOpenForWrite(fs, path)
    THEN [fs EXCEPT !.files =
            (path :> ((IF path \in DOMAIN fs.files THEN fs.files[path] ELSE <<>>)
                      \o <<msg>>)) @@ @]
    ELSE fs

\* log_msg(s): with the card not mounted every call on sdmc:/ fails
log_msg(fs, mounted, granted, msg) ==
    IF mounted
    THEN AppendLine(ensure_log_dir(fs), SdPath(LOG_PATH), granted, msg)
    ELSE fs

\* log_printf(fmt, ...)
log_printf(fs, mounted, granted, msg) ==
    IF mounted
    THEN AppendLine(ensure_log_dir(fs), SdPath(LOG_PATH), granted, msg)
    ELSE fs

\* read_text_file without the trimming loop
read_text_file_NoTrim(files, name, outsz) ==
    IF name \notin DOMAIN files THEN <<>> ELSE Take(files[name], outsz - 1)

\* read_text_file(path, out, outsz): "" when the file cannot be opened, else
\* its first outsz - 1 characters without trailing '\n', '\r', ' ', '\t'
read_text_file(files, name, outsz) ==
    IF name \notin DOMAIN files THEN <<>>
    ELSE LET out == Take(files[name], outsz - 1)
             n == CHOOSE k \in 0..Len(out) :
                      /\ (k = 0 \/ ~IsSpace(out[k]))
                      /\ \A j \in (k + 1)..Len(out) : IsSpace(out[j])
         IN SubSeq(out, 1, n)

\* a chainload_nro that returns success without having transferred control
chainload_nro_ReturnsOk(path, args) == 0

\* chainload_nro(nroPath, argvLine): the placeholder returns MAKERESULT(346, 1)
chainload_nro(path, args) == MAKERESULT(346, 1)

\* the fopen calls of the log that the environment refuses: at most `faults`
\* of them, and none when the card is not mounted (they fail anyway)
Grants(k, mounted, budget) ==
    {g \in [1..k -> BOOLEAN] :
        /\ Cardinality({i \in 1..k : ~g[i]}) <= budget
        /\ (~mounted => \A i \in 1..k : g[i])}

Refused(g) == Cardinality({i \in DOMAIN g : ~g[i]})

OrMissing(text) == IF text = <<>> THEN <<"(missing)">> ELSE text

\* fsInitialize(); fsdevMountSdmc(); romfsInit(); log_msg("SRP forwarder start")
\* (no result is looked at: either mount may have failed)
FwdInit ==
    /\ pc = "f_init"
    /\ \E sdOk \in BOOLEAN, romOk \in BOOLEAN :
        /\ held' = <<"fs">> \o (IF sdOk THEN <<"sdmc">> ELSE <<>>)
                            \o (IF romOk THEN <<"romfs">> ELSE <<>>)
        /\ \E g \in Grants(1, sdOk, faults) :
            /\ sd' = log_msg(sd, sdOk, g[1], <<"SRP forwarder start">>)
            /\ faults' = faults - Refused(g)
    /\ pc' = "f_read"
    /\ UNCHANGED <<run, image, listPos, copyVars, screen, relHist, hist, exitBy, fwdVars>>

Mounted(dev) == \E i \in 1..Len(held) : held[i] = dev

\* read_text_file of both records; log_printf of both
FwdReadRecords ==
    /\ pc = "f_read"
    /\ LET files == IF Mounted("romfs") THEN RomfsFiles(image) ELSE NoFiles
       IN /\ nroPath' = read_text_file(files, NRO_FILE, NROPATH_SIZE)
          /\ argvLine' = read_text_file(files, ARG_FILE, ARGVLINE_SIZE)
    /\ \E g \in Grants(2, Mounted("sdmc"), faults) :
        /\ sd' = log_printf(
                    log_printf(sd, Mounted("sdmc"), g[1],
                               <<"nextNroPath=", OrMissing(nroPath')>>),
                    Mounted("sdmc"), g[2], <<"nextArgv=", OrMissing(argvLine')>>)
        /\ faults' = faults - Refused(g)
    /\ pc' = "f_console"
    /\ UNCHANGED <<run, image, listPos, copyVars, screen, held, relHist, hist, exitBy,
                   calls>>

\* consoleInit(NULL); the banner; if (!nroPath[0]) the error is shown and logged
FwdConsole ==
    /\ pc = "f_console"
    /\ Acquire("console")
    /\ IF nroPath = <<>>
       THEN /\ Show(<< <<"Switch ROM Packer Forwarder">>,
                       <<"Error: romfs:/nextNroPath missing">> >>)
            /\ \E g \in Grants(1, Mounted("sdmc"), faults) :
                /\ sd' = log_msg(sd, Mounted("sdmc"), g[1], <<"ERROR: nextNroPath missing">>)
                /\ faults' = faults - Refused(g)
            /\ pc' = "f_pad"
       ELSE /\ Show(<< <<"Switch ROM Packer Forwarder">>, <<"Target NRO:", nroPath>> >>)
            /\ pc' = "f_chain"
            /\ UNCHANGED <<sd, faults>>
    /\ UNCHANGED <<run, image, listPos, copyVars, hist, exitBy, fwdVars>>

\* Result rc = chainload_nro(nroPath, argvLine); if (R_FAILED(rc)) the failure
\* is shown and logged
FwdChainload ==
    /\ pc = "f_chain"
    /\ calls' = Append(calls, <<nroPath, argvLine>>)
    /\ rc' = chainload_nro(nroPath, argvLine)
    /\ IF R_FAILED(rc')
       THEN /\ Show(<< <<"Launch not implemented yet", rc'>> >>)
            /\ \E g \in Grants(1, Mounted("sdmc"), faults) :
                /\ sd' = log_printf(sd, Mounted("sdmc"), g[1],
                                    <<"chainload_nro not implemented", rc'>>)
                /\ faults' = faults - Refused(g)
       ELSE UNCHANGED <<screen, sd, faults>>
    /\ pc' = "f_pad"
    /\ UNCHANGED <<run, image, listPos, srcPath, dstPath, srcOff, mkrc, held, relHist,
                   hist, exitBy, nroPath, argvLine>>

\* printf("Press + to exit."); padConfigureInput; padInitializeDefault
FwdPad ==
    /\ pc = "f_pad"
    /\ Show(<< <<"Press + to exit.">> >>)
    /\ pc' = "f_idle"
    /\ UNCHANGED <<run, image, sd, listPos, copyVars, held, relHist, faults, hist,
                   exitBy, fwdVars>>

\* the idle loop ends when appletMainLoop() returns false or PLUS is down;
\* then consoleExit(NULL); romfsExit(); fsdevUnmountAll(); fsExit(); return 0
FwdIdle ==
    /\ pc = "f_idle"
    /\ \E cause \in {"plus", "applet"} : exitBy' = cause
    /\ Release(<<"console", "romfs", "sdmc", "fs">>)
    /\ pc' = "exited"
    /\ UNCHANGED <<run, image, sd, listPos, copyVars, screen, faults, hist, fwdVars>>

FwdStep ==
    \/ FwdInit
    \/ FwdReadRecords
    \/ FwdConsole
    \/ FwdChainload
    \/ FwdPad
    \/ FwdIdle

(***************************************************************************)
(* Specifications                                                          *)
(***************************************************************************)
\* the stub, launched once, the environment injecting up to MaxFaults failures
Init ==
    /\ pc = "s_init"
    /\ run = 1
    /\ image \in Images
    /\ sd \in SdCards
    /\ faults = MaxFaults
    /\ hist = <<>>
    /\ ProcessInit

Next == StubStep

Spec == Init /\ [][Next]_vars

\* the stub, launched up to MaxRuns times on the same card, no I/O failure
InitRerun ==
    /\ pc = "s_init"
    /\ run = 1
    /\ image \in Images
    /\ sd \in SdCards
    /\ faults = 0
    /\ hist = <<>>
    /\ ProcessInit

NextRerun == StubStep \/ StubRelaunch

SpecRerun == InitRerun /\ [][NextRerun]_vars

\* the single-ROM stub
InitRom ==
    /\ pc = "r_init"
    /\ run = 1
    /\ image \in RomImages
    /\ sd \in RomSdCards
    /\ faults = MaxFaults
    /\ hist = <<>>
    /\ ProcessInit

NextRom == RomStep

SpecRom == InitRom /\ [][NextRom]_vars

\* the forwarder
InitFwd ==
    /\ pc = "f_init"
    /\ run = 1
    /\ image \in FwdImages
    /\ sd \in FwdSdCards
    /\ faults = MaxFaults
    /\ hist = <<>>
    /\ ProcessInit

NextFwd == FwdStep

SpecFwd == InitFwd /\ [][NextFwd]_vars

(***************************************************************************)
(* The manifest as the specification reads it                              *)
(***************************************************************************)
\* the physical lines of a text: what stands between line terminators
RECURSIVE SplitLines(_, _)
SplitLines(text, pos) ==
    IF pos > Len(text) THEN <<>>
    ELSE LET nl == StopIdx(text, pos, IsLF)
         IN <<SubSeq(text, pos, nl - 1)>> \o SplitLines(text, nl + 1)

\* the non-empty lines of the manifest, trimmed of trailing CR/LF
EntryLines(img) ==
    LET ls == SplitLines(ManifestText(img), 1)
    IN SelectSeq([i \in 1..Len(ls) |-> TrimCRLF(ls[i])], LAMBDA l : l # <<>>)

Category(l) == SubSeq(l, 1, StopIdx(l, 1, IsTab) - 1)
FileName(l) == SubSeq(l, StopIdx(l, 1, IsTab) + 1, Len(l))

\* the two-field shape: category TAB filename, both non-empty, within the caps
WellFormed(l) ==
    /\ StopIdx(l, 1, IsTab) <= Len(l)
    /\ Len(Category(l)) \in 1..PLATFORM_WIDTH
    /\ Len(FileName(l)) \in 1..FILENAME_WIDTH

WellFormedLines(img) == SelectSeq(EntryLines(img), WellFormed)
MalformedLines(img) == SelectSeq(EntryLines(img), LAMBDA l : ~WellFormed(l))

\* the CopyTask of an entry: source romfs:/<filename>, destination
\* /roms/<category>/<filename>
SourceOf(l) == ROMFS_ROOT \o FileName(l)
DestinationOf(l) == OUTPUT_BASE \o Category(l) \o <<SLASH>> \o FileName(l)

ExpectedTasks(img) ==
    LET wf == WellFormedLines(img)
    IN [i \in 1..Len(wf) |-> <<"Copying", SourceOf(wf[i]), DestinationOf(wf[i])>>]

\* what the screen tells of the run
Attempts == SelectSeq(screen, LAMBDA m : m[1] = "Copying")
Successes == SelectSeq(screen, LAMBDA m : m[1] = "Done")
Failures == SelectSeq(screen, LAMBDA m : m[1] = "Copy failed")
BadLineReports == SelectSeq(screen, LAMBDA m : m[1] = "Bad manifest line")

IoFailures ==
    SelectSeq(Failures, LAMBDA m : m[2] = MAKERESULT(Module_Libnx, LibnxError_IoError))

\* the manifest loop has run to its end
BatchDone == pc \in {"s_romfsExit", "s_pad", "s_idle", "exited"} /\ listPos > 0

AllSourcesExist(img) ==
    \A i \in 1..Len(WellFormedLines(img)) :
        FileName(WellFormedLines(img)[i]) \in DOMAIN RomSets[img.roms]

\* no file name of the manifest begins with white space
NoLeadingSpace(img) ==
    \A i \in 1..Len(WellFormedLines(img)) : ~IsSpace(FileName(WellFormedLines(img)[i])[1])

AllCopied(img) ==
    \A i \in 1..Len(WellFormedLines(img)) :
        LET l == WellFormedLines(img)[i]
        IN /\ DestinationOf(l) \in DOMAIN sd.files
           /\ sd.files[DestinationOf(l)] = RomSets[img.roms][FileName(l)]

(***************************************************************************)
(* Claims                                                                  *)
(***************************************************************************)
\* C1 (as claimed): for a manifest of N well-formed lines and no malformed
\* line, every named source in the image, no I/O failure: N copies are
\* attempted, the N tasks of the entries, N succeed, and every destination
\* /roms/<category>/<filename> holds the bytes of romfs:/<filename>.
\* Refuted by a file name that begins with a blank (see C13): the white-space
\* directive of the sscanf format swallows the blank.
C1_AsClaimed ==
    (/\ BatchDone
     /\ Len(MalformedLines(image)) = 0
     /\ AllSourcesExist(image)
     /\ faults = MaxFaults
     /\ Len(IoFailures) = 0)
    => (/\ Attempts = ExpectedTasks(image)
        /\ Len(Successes) = Len(WellFormedLines(image))
        /\ AllCopied(image))

\* C1, for manifests without a leading blank in a file name: holds
C1_WithoutLeadingSpace ==
    (/\ BatchDone
     /\ Len(MalformedLines(image)) = 0
     /\ NoLeadingSpace(image)
     /\ AllSourcesExist(image)
     /\ faults = MaxFaults
     /\ Len(IoFailures) = 0)
    => (/\ Attempts = ExpectedTasks(image)
        /\ Len(Successes) = Len(WellFormedLines(image))
        /\ AllCopied(image))

\* the tasks among the attempts that are tasks of well-formed entries
AttemptsOfEntries(img) ==
    SelectSeq(Attempts,
              LAMBDA a : \E i \in 1..Len(ExpectedTasks(img)) : ExpectedTasks(img)[i] = a)

\* no physical line is longer than fgets reads in one call
NoLongLine(img) ==
    \A i \in 1..Len(img.lines) : Len(ManifestLines[img.lines[i]]) <= LINE_SIZE - 1

\* C2 (as claimed): whatever lines fail to parse and whatever copies fail,
\* the loop reads the manifest to its end and attempts every well-formed
\* entry exactly once, in manifest order.
\* Refuted through C13 and C14: an entry whose file name begins with a blank
\* is attempted under another name, and the tail of an over-long line is
\* attempted as an entry of its own.
C2_AsClaimed ==
    BatchDone
    => (/\ listPos = Len(ManifestText(image)) + 1
        /\ AttemptsOfEntries(image) = ExpectedTasks(image))

\* C2, for manifests without a leading blank in a file name and without an
\* over-long line: holds, under every injected failure
C2_WithoutParserDefects ==
    (BatchDone /\ NoLeadingSpace(image) /\ NoLongLine(image))
    => (/\ listPos = Len(ManifestText(image)) + 1
        /\ AttemptsOfEntries(image) = ExpectedTasks(image))

\* the files some card holds before the first launch
StaleFiles == UNION {DOMAIN c.files : c \in SdCards}

\* every file on the card is the destination of a well-formed entry or was
\* there before
NoStrayFile(img) ==
    \A f \in DOMAIN sd.files :
        \/ f \in StaleFiles
        \/ \E i \in 1..Len(WellFormedLines(img)) : DestinationOf(WellFormedLines(img)[i]) = f

ReportsOf(lines) == [i \in 1..Len(lines) |-> <<"Bad manifest line", lines[i]>>]

\* C3 (as claimed): a non-empty line that violates the two-field shape (no
\* tab, empty category, empty file name, category over 159 bytes, file name
\* over 575 bytes) is reported, no copy is attempted for it, nothing is
\* created because of it, and the well-formed lines are all copied.
\* Refuted by a category of 160 bytes and by a file name of 576 bytes: sscanf
\* converts both fields and the line is copied under cut names.
C3_AsClaimed ==
    (/\ BatchDone
     /\ Len(MalformedLines(image)) > 0
     /\ NoLeadingSpace(image)
     /\ AllSourcesExist(image)
     /\ faults = MaxFaults
     /\ Len(IoFailures) = 0)
    => (/\ Attempts = ExpectedTasks(image)
        /\ BadLineReports = ReportsOf(MalformedLines(image))
        /\ Len(Successes) = Len(WellFormedLines(image))
        /\ AllCopied(image)
        /\ NoStrayFile(image))

\* a line that lacks the tab, the category or the file name
LacksField(l) ==
    \/ StopIdx(l, 1, IsTab) > Len(l)
    \/ Len(Category(l)) = 0
    \/ Len(FileName(l)) = 0

\* C3, for lines that lack a field and are not over-long: holds
C3_ForMissingFields ==
    (/\ BatchDone
     /\ Len(MalformedLines(image)) > 0
     /\ \A i \in 1..Len(MalformedLines(image)) : LacksField(MalformedLines(image)[i])
     /\ NoLongLine(image)
     /\ NoLeadingSpace(image)
     /\ AllSourcesExist(image)
     /\ faults = MaxFaults
     /\ Len(IoFailures) = 0)
    => (/\ Attempts = ExpectedTasks(image)
        /\ BadLineReports = ReportsOf(MalformedLines(image))
        /\ Len(Successes) = Len(WellFormedLines(image))
        /\ AllCopied(image)
        /\ NoStrayFile(image))

\* the archive mount failed / the image holds no filelist.txt
MountFailed == screen # <<>> /\ screen[1][1] = "romfsInit failed"
ManifestAbsent == ~image.hasList
NoManifest == MountFailed \/ (ManifestAbsent /\ pc # "s_init")

\* C4: with the manifest absent from the image, or the archive mount failed,
\* the stub reports that one condition, attempts no entry, changes nothing on
\* the card (no step of such a run changes sd), never enters the manifest
\* loop or copyFile, and goes on to the idle loop.
C4_NoManifestNoTouch ==
    /\ [](NoManifest
          => /\ Attempts = <<>>
             /\ pc \in {"s_open", "s_romfsExit", "s_pad", "s_idle", "exited"}
             /\ (pc \in {"s_idle", "exited"}
                 => \/ (MountFailed /\ Len(screen) = 2 /\ screen[2] = <<"Press PLUS to exit.">>)
                    \/ (~MountFailed
                        /\ screen = << <<"Missing in RomFS", FILELIST>>,
                                       <<"Press PLUS to exit.">> >>)))
    /\ [][(NoManifest \/ NoManifest') => sd' = sd]_vars

C4_Witness ==
    /\ pc = "s_idle"
    /\ ManifestAbsent
    /\ screen = << <<"Missing in RomFS", FILELIST>>, <<"Press PLUS to exit.">> >>
    /\ sd.files # NoFiles

\* every directory on the way to the file at path
DirsOf(path) == MkpathTargets(Parent(path))
DirsReady(path) == \A d \in DirsOf(path) : d \in sd.dirs

IsHeld(r) == \E i \in 1..Len(held) : held[i] = r

\* C9: the destination is open only when every directory of its path exists;
\* when mkpath has failed (a component could not be created and is no
\* directory), the destination is never opened and copyFile returns a
\* failure to the manifest loop, both files closed and the manifest still open.
C9_DirsBeforeOpen ==
    /\ IsHeld("dst") => (DirsReady(dstPath) /\ mkrc = 0)
    /\ (pc \in {"s_cf_dst", "s_cf_loop", "s_cf_ret"} /\ mkrc = -1) => ~DirsReady(dstPath)
    /\ (pc = "s_cf_ret" /\ ~DirsReady(dstPath)) => (R_FAILED(rc) /\ ~IsHeld("dst"))
    /\ pc = "s_cf_ret" => (~IsHeld("src") /\ ~IsHeld("dst") /\ IsHeld("list"))

\* a mkdir was refused, the copy has failed with IoError, the file does not exist
C9_Witness ==
    /\ pc = "s_cf_ret"
    /\ mkrc = -1
    /\ faults < MaxFaults
    /\ rc = MAKERESULT(Module_Libnx, LibnxError_IoError)
    /\ dstPath \notin DOMAIN sd.files

\* two launches in a row have read the manifest
BothRan ==
    /\ run >= 2
    /\ pc = "exited"
    /\ listPos > 0
    /\ hist[run - 1].screen # <<>>
    /\ hist[run - 1].screen[1][1] \notin {"romfsInit failed", "Missing in RomFS"}

\* C5: a launch that follows a launch with the same manifest and the same
\* sources, no I/O failure in either, leaves the card as it found it (the
\* same directories, the same files with the same bytes) and prints what the
\* launch before printed: what was copied is copied again, nothing fails
\* because a directory or a file is already there.
C5_Idempotent ==
    BothRan => (sd = hist[run - 1].sd /\ screen = hist[run - 1].screen)

\* the second launch has copied a file onto the file the first launch wrote
C5_Witness ==
    /\ BothRan
    /\ Len(Successes) = 2
    /\ Len(SelectSeq(hist[run - 1].screen, LAMBDA m : m[1] = "Done")) = 2
    /\ AllCopied(image)

\* a copy in which fwrite wrote less than fread had read
ShortWritten == dstPath \in DOMAIN sd.files /\ Len(sd.files[dstPath]) < srcOff

\* C10 (as claimed), of copyFile of the single-ROM stub: after a short write
\* copyFile does not go on copying, and it returns a failure, both handles
\* closed.
\* Refuted: src/stub/source/main.c does not look at what fwrite returns; the
\* loop goes on and copyFile returns 0.
C10_AsClaimed ==
    /\ pc = "r_cf_loop" => ~ShortWritten
    /\ (pc = "r_cf_ret" /\ ShortWritten)
       => (R_FAILED(rc) /\ ~IsHeld("src") /\ ~IsHeld("dst"))

\* C10, of copyFile of the manifest stub (src/unnamed/part_002): holds; the
\* partial file stays on the card
C10_ManifestStub ==
    /\ pc = "s_cf_loop" => ~ShortWritten
    /\ (pc = "s_cf_ret" /\ ShortWritten)
       => (/\ rc = MAKERESULT(Module_Libnx, LibnxError_IoError)
           /\ ~IsHeld("src") /\ ~IsHeld("dst") /\ IsHeld("list"))

(***************************************************************************)
(* The handoff records as the specification reads them                     *)
(***************************************************************************)
Blank(text) == \A i \in 1..Len(text) : IsSpace(text[i])

RECURSIVE WithoutTrailingSpace(_)
WithoutTrailingSpace(text) ==
    IF text = <<>> \/ ~IsSpace(text[Len(text)]) THEN text
    ELSE WithoutTrailingSpace(SubSeq(text, 1, Len(text) - 1))

\* the record as far as the buffer holds it, "" when the file is not there
RecordText(records, k, size) == IF k = 0 THEN <<>> ELSE Take(records[k], size - 1)

TargetRecord == RecordText(NroRecords, image.nro, NROPATH_SIZE)
ArgvRecord == RecordText(ArgvRecords, image.argv, ARGVLINE_SIZE)

\* the target path record is empty: not readable, empty, or white space only
TargetEmpty == ~Mounted("romfs") \/ Blank(TargetRecord)

LogLines ==
    IF SdPath(LOG_PATH) \in DOMAIN sd.files THEN sd.files[SdPath(LOG_PATH)] ELSE <<>>

LastLogged == IF LogLines = <<>> THEN <<"">> ELSE LogLines[Len(LogLines)]

OnScreen(tag) == \E i \in 1..Len(screen) : screen[i][1] = tag

\* the fopen of the log in this step succeeded: the card is mounted and the
\* environment has not refused it
LogOpened == Mounted("sdmc") /\ faults' = faults

AfterHandoff == pc \in {"f_pad", "f_idle"}

\* C6 (as claimed): with an empty target path record chainload_nro is not
\* called and the missing-target line is appended to the log; with a
\* non-empty one it is called once, with the trimmed records, also when the
\* argv record is empty.
\* Refuted where the log cannot be opened: log_msg drops the line.
C6_AsClaimed ==
    AfterHandoff
    => /\ TargetEmpty
          => (calls = <<>> /\ LastLogged[1] = "ERROR: nextNroPath missing")
       /\ ~TargetEmpty
          => calls = << <<WithoutTrailingSpace(TargetRecord),
                          WithoutTrailingSpace(ArgvRecord)>> >>

\* C6 (amended): with an empty target path record chainload_nro is not
\* called, the missing-target line is shown on the screen, and it is appended
\* to the log whenever the log file can be opened, where it stays the last
\* line; with a non-empty record chainload_nro is called once, with the
\* trimmed records, also when the argv record is empty.
C6_NoTargetNoTransfer ==
    /\ [](AfterHandoff
          => /\ TargetEmpty
                => (calls = <<>> /\ OnScreen("Error: romfs:/nextNroPath missing"))
             /\ ~TargetEmpty
                => calls = << <<WithoutTrailingSpace(TargetRecord),
                                WithoutTrailingSpace(ArgvRecord)>> >>)
    /\ [][/\ (pc = "f_console" /\ pc' = "f_pad" /\ LogOpened)
             => LastLogged'[1] = "ERROR: nextNroPath missing"
          /\ AfterHandoff => sd' = sd]_vars

\* a record of white space only: no call, the line is in the log
C6_Witness ==
    /\ pc = "f_idle"
    /\ Mounted("romfs")
    /\ image.nro = 3
    /\ calls = <<>>
    /\ LastLogged[1] = "ERROR: nextNroPath missing"

\* the line that tells the failure of this run, on the screen and in the log
FailureShown ==
    IF calls = <<>>
    THEN OnScreen("Error: romfs:/nextNroPath missing")
    ELSE \E i \in 1..Len(screen) :
            /\ screen[i][1] = "Launch not implemented yet"
            /\ screen[i][2] = rc
            /\ R_FAILED(rc)

FailureLogged ==
    IF calls = <<>>
    THEN LastLogged[1] = "ERROR: nextNroPath missing"
    ELSE /\ LastLogged[1] = "chainload_nro not implemented"
         /\ LastLogged[2] = rc
         /\ R_FAILED(rc)

\* C7 (as claimed): on every run in which control is not transferred the
\* failure line is in the log (with the result code after an attempt) and on
\* the screen before the idle loop.
\* Refuted where the log cannot be opened: log_msg and log_printf drop the line.
C7_AsClaimed ==
    pc = "f_idle" => (FailureShown /\ FailureLogged)

\* C7 (amended): on every run the failure line is on the screen before the
\* idle loop (with the result code after an attempt), and it is appended to
\* the log whenever the log file can be opened, where it stays the last line;
\* the process leaves the idle loop only by PLUS or by the applet being told
\* to close, and exits from nowhere else.
C7_FailureReported ==
    /\ [](pc \in {"f_idle", "exited"}
          => /\ FailureShown
             /\ screen[Len(screen)] = <<"Press + to exit.">>)
    /\ [][/\ (pc \in {"f_console", "f_chain"} /\ pc' = "f_pad" /\ LogOpened)
             => FailureLogged'
          /\ AfterHandoff => sd' = sd
          /\ pc = "f_idle" => pc' \in {"f_idle", "exited"}
          /\ (pc' = "exited" /\ pc # "exited")
             => (pc = "f_idle" /\ exitBy' \in {"plus", "applet"})]_vars

\* a transfer was attempted and has failed: shown and logged with the code
C7_Witness ==
    /\ pc = "f_idle"
    /\ calls # <<>>
    /\ FailureShown
    /\ FailureLogged
    /\ rc = MAKERESULT(346, 1)

\* C8 (as claimed): with a target path record that names an executable on the
\* card, control is transferred and the forwarder never goes on after the
\* call of chainload_nro.
\* Refuted: chainload_nro is a placeholder that returns MAKERESULT(346, 1);
\* the forwarder goes on, logs the failure and idles.
C8_AsClaimed ==
    ~(/\ pc \in {"f_pad", "f_idle", "exited"}
      /\ calls # <<>>
      /\ SdPath(calls[1][1]) \in DOMAIN sd.files)

(***************************************************************************)
(* Resources                                                               *)
(***************************************************************************)
\* the resources released by this step, in the order of their release
ReleasedNow ==
    IF Len(relHist') > Len(relHist)
    THEN SubSeq(relHist', Len(relHist) + 1, Len(relHist'))
    ELSE <<>>

\* C11 (as claimed): on every path a resource is released only if it was
\* acquired and is still held, every release is of the resource acquired
\* last among those still held (reverse of the order of acquisition), and at
\* process exit nothing is held.
\* Refuted in the stub: copyFile does fclose(src) before fclose(dst), src
\* having been opened first. Refuted in the forwarder too: romfsExit(),
\* fsdevUnmountAll() are called also when the mount had failed.
C11_AsClaimed ==
    /\ [][\A i \in 1..Len(ReleasedNow) :
            /\ i <= Len(held)
            /\ ReleasedNow[i] = held[Len(held) - i + 1]]_vars
    /\ [](pc = "exited" => held = <<>>)

\* C11, without the order: what a step releases it holds, once, and at
\* process exit nothing is held (holds of both stubs, not of the forwarder)
C11_ReleasesWhatIsHeld ==
    /\ [][\A i \in 1..Len(ReleasedNow) :
            /\ \E j \in 1..Len(held) : held[j] = ReleasedNow[i]
            /\ \A k \in 1..Len(ReleasedNow) : ReleasedNow[k] = ReleasedNow[i] => k = i]_vars
    /\ [](pc = "exited" => held = <<>>)

(***************************************************************************)
(* copyFile: what success means                                            *)
(***************************************************************************)
\* the destination holds the bytes of the source, all of them
DestinationComplete ==
    /\ dstPath \in DOMAIN sd.files
    /\ RomfsName(srcPath) \in DOMAIN RomfsFiles(image)
    /\ sd.files[dstPath] = RomfsFiles(image)[RomfsName(srcPath)]

\* C12 (as claimed), of copyFile of the manifest stub: when copyFile returns
\* 0 the destination file holds the complete content of the source.
\* Refuted: a read error makes fread return 0 (or less than asked), the loop
\* ends as at end of file, ferror(src) is not looked at and copyFile
\* returns 0.
C12_AsClaimed ==
    (pc = "s_cf_ret" /\ rc = 0) => DestinationComplete

\* C12 (as claimed), of copyFile of the single-ROM stub: refuted by a read
\* error and by a short write (the result of fwrite is not looked at)
C12_AsClaimedOfRomStub ==
    (pc = "r_cf_ret" /\ rc = 0) => DestinationComplete

\* C12, of the manifest stub when fread has delivered every byte of the
\* source: holds
C12_WhenSourceWasRead ==
    (/\ pc = "s_cf_ret"
     /\ rc = 0
     /\ srcOff = Len(RomfsFiles(image)[RomfsName(srcPath)]))
    => DestinationComplete

(***************************************************************************)
(* The parser: fields and lines                                            *)
(***************************************************************************)
\* the trimmed line that this turn of the manifest loop hands to sscanf
LineParsed == TrimCRLF(Fgets(RomfsFiles(image)[FILELIST], listPos))

\* this step is the parser accepting a line as an entry
Accepts == pc = "s_line" /\ pc' = "s_cf_src"

\* the two paths are built of the fields as they stand in the line
FieldsVerbatim ==
    /\ srcPath' = SourceOf(LineParsed)
    /\ dstPath' = DestinationOf(LineParsed)

\* C13 (as claimed): every trimmed non-empty line that the parser accepts is
\* category TAB filename, the category non-empty, without tab, at most 159
\* bytes, the file name non-empty, at most 575 bytes, and these two fields
\* are the ones the copy is made with.
\* Refuted: the "\t" of the sscanf format skips all white space after the
\* category, %159[^\t] cuts a longer category and leaves the rest to the
\* file name, %575[^\n] cuts a longer file name.
C13_AsClaimed ==
    [][Accepts => (WellFormed(LineParsed) /\ FieldsVerbatim)]_vars

\* C13, for the lines of the two-field shape whose file name does not begin
\* with white space: the fields are taken verbatim (holds)
C13_VerbatimWithoutLeadingSpace ==
    [][(/\ Accepts
        /\ WellFormed(LineParsed)
        /\ ~IsSpace(FileName(LineParsed)[1]))
       => FieldsVerbatim]_vars

\* the image holds a manifest
HasManifest == image.hasList

\* the text that fgets returns next begins a physical line of the manifest
AtLineStart ==
    \/ listPos = 1
    \/ (listPos > 1 /\ RomfsFiles(image)[FILELIST][listPos - 1] = LF)

\* C14 (as claimed): a copy is attempted only for text that begins a physical
\* line, so that what exceeds 767 bytes of a line is never parsed as an entry
\* of its own, and there are at most as many attempts as non-empty physical
\* lines.
\* Refuted: fgets returns the rest of an over-long line as the next line,
\* and the loop parses it like any other.
C14_AsClaimed ==
    /\ [][Accepts => AtLineStart]_vars
    /\ [](HasManifest => Len(Attempts) <= Len(EntryLines(image)))

\* C14, for manifests whose lines are within the bound: one turn of the loop
\* per physical line (holds)
C14_WithinTheBound ==
    /\ [][(Accepts /\ NoLongLine(image)) => AtLineStart]_vars
    /\ []((HasManifest /\ NoLongLine(image))
          => Len(Attempts) <= Len(EntryLines(image)))

====
